---- MODULE Spec2Model ----
(***************************************************************************)
(* Model of src/app.py, the Streamlit hypertension assessment form.        *)
(*                                                                         *)
(* Units.  Weights are tenths of a kilogram, heights whole centimetres    *)
(* and a BMI is held in hundredths (24.22 kg/m2 is 2422), so that the     *)
(* two-decimal rounding of calculate_bmi is integer arithmetic.            *)
(* A Python dict is a function whose DOMAIN is the set of keys present.    *)
(***************************************************************************)
EXTENDS Integers, Sequences, FiniteSets, TLC

VARIABLES
    page,          \* value of the sidebar radio (app.py:64)
    widgets,       \* values of the keyed Patient Assessment widgets
    patient_data,  \* st.session_state.patient_data (app.py:60, 342)
    output,        \* what the last script run rendered
    actions,       \* the `actions` list of the last script run (app.py:408)
    last_inputs,   \* history: form inputs of the last Generate click
    call,          \* a direct call of one helper function: name and arguments
    ret            \* <<its return value>>, the empty NoRet until it has returned

vars == <<page, widgets, patient_data, output, actions, last_inputs, call, ret>>

-----------------------------------------------------------------------------
(* Python dict helpers *)

EmptyDict == [k \in {} |-> 0]

\* data.get(k, d)
Get(data, k, d) == IF k \in DOMAIN data THEN data[k] ELSE d

\* `if data.get(k):` for a key that holds a bool when present
Truthy(data, k) == k \in DOMAIN data /\ data[k] = TRUE

\* `if data:` -- a dict is true when it has a key
NonEmpty(data) == DOMAIN data # {}

Range(s) == {s[i] : i \in 1..Len(s)}

-----------------------------------------------------------------------------
(* Helper functions, app.py:70-138 *)

\* round-half-even of n/d for n >= 0, d > 0, as round(x, 2) does
RoundHalfEven(n, d) ==
    LET q == n \div d
        r == n % d
    IN  IF 2 * r < d THEN q
        ELSE IF 2 * r > d THEN q + 1
        ELSE IF q % 2 = 0 THEN q ELSE q + 1

\* weight in tenths of kg, height in cm; result in hundredths of kg/m2:
\* (w/10) / (h/100)^2 * 100 = w * 10^5 / h^2.  The weights and heights used
\* below give no quotient that ends in exactly half a hundredth, where the
\* float division would decide the rounding.
calculate_bmi(weight, height) == RoundHalfEven(weight * 100000, height * height)

\* first-match-wins, clauses in the order of the source
classify_bp_crisis_first(systolic, diastolic) ==
    IF systolic < 120 /\ diastolic < 80 THEN <<"Normal", "low">>
    ELSE IF systolic < 130 /\ diastolic < 80 THEN <<"Elevated", "moderate">>
    ELSE IF systolic >= 180 \/ diastolic >= 120
        THEN <<"Hypertensive Crisis - EMERGENCY", "high">>
    ELSE IF (130 <= systolic /\ systolic <= 139) \/ (80 <= diastolic /\ diastolic <= 89)
        THEN <<"Stage 1 Hypertension", "moderate">>
    ELSE IF systolic >= 140 \/ diastolic >= 90
        THEN <<"Stage 2 Hypertension", "high">>
    ELSE <<"Unknown", "moderate">>

classify_bp_strict(systolic, diastolic) ==
    IF systolic < 120 /\ diastolic < 80 THEN <<"Normal", "low">>
    ELSE IF systolic < 130 /\ diastolic < 80 THEN <<"Elevated", "moderate">>
    ELSE IF (130 <= systolic /\ systolic <= 139) \/ (80 <= diastolic /\ diastolic <= 89)
        THEN <<"Stage 1 Hypertension", "moderate">>
    ELSE IF systolic > 140 \/ diastolic > 90
        THEN <<"Stage 2 Hypertension", "high">>
    ELSE IF systolic >= 180 \/ diastolic >= 120
        THEN <<"Hypertensive Crisis - EMERGENCY", "high">>
    ELSE <<"Unknown", "moderate">>

classify_bp(systolic, diastolic) ==
    IF systolic < 120 /\ diastolic < 80 THEN <<"Normal", "low">>
    ELSE IF systolic < 130 /\ diastolic < 80 THEN <<"Elevated", "moderate">>
    ELSE IF (130 <= systolic /\ systolic <= 139) \/ (80 <= diastolic /\ diastolic <= 89)
        THEN <<"Stage 1 Hypertension", "moderate">>
    ELSE IF systolic >= 140 \/ diastolic >= 90
        THEN <<"Stage 2 Hypertension", "high">>
    ELSE IF systolic >= 180 \/ diastolic >= 120
        THEN <<"Hypertensive Crisis - EMERGENCY", "high">>
    ELSE <<"Unknown", "moderate">>

\* `needle in bp_class` for the three needles of calculate_risk_score and
\* the six labels classify_bp can return
Contains(needle, label) ==
    \/ needle = "Crisis"  /\ label = "Hypertensive Crisis - EMERGENCY"
    \/ needle = "Stage 2" /\ label = "Stage 2 Hypertension"
    \/ needle = "Stage 1" /\ label = "Stage 1 Hypertension"

AgePoints(data) ==
    IF Get(data, "age", 0) > 65 THEN 3
    ELSE IF Get(data, "age", 0) > 55 THEN 2
    ELSE IF Get(data, "age", 0) > 45 THEN 1
    ELSE 0

BmiPoints(data) ==
    LET bmi == Get(data, "bmi", 0)
    IN  IF bmi >= 3000 THEN 2
        ELSE IF bmi >= 2500 THEN 1
        ELSE 0

ComorbidityPoints(data) ==
      (IF Truthy(data, "diabetes") THEN 3 ELSE 0)
    + (IF Truthy(data, "cad") THEN 3 ELSE 0)
    + (IF Truthy(data, "ckd") THEN 2 ELSE 0)
    + (IF Truthy(data, "smoking") THEN 2 ELSE 0)

BpPoints(data) ==
    LET bp_class == classify_bp(Get(data, "systolic", 120), Get(data, "diastolic", 80))[1]
    IN  IF Contains("Crisis", bp_class) THEN 5
        ELSE IF Contains("Stage 2", bp_class) THEN 3
        ELSE IF Contains("Stage 1", bp_class) THEN 2
        ELSE 0

calculate_risk_score_age_swapped(data) ==
      (IF Get(data, "age", 0) > 65 THEN 1
       ELSE IF Get(data, "age", 0) > 55 THEN 2
       ELSE IF Get(data, "age", 0) > 45 THEN 3
       ELSE 0)
    + BmiPoints(data) + ComorbidityPoints(data) + BpPoints(data)

calculate_risk_score(data) ==
    AgePoints(data) + BmiPoints(data) + ComorbidityPoints(data) + BpPoints(data)

get_risk_category_exclusive(score) ==
    IF score < 3 THEN <<"Low Risk", "low">>
    ELSE IF score < 7 THEN <<"Moderate Risk", "moderate">>
    ELSE IF score < 12 THEN <<"High Risk", "high">>
    ELSE <<"Very High Risk", "high">>

get_risk_category(score) ==
    IF score <= 3 THEN <<"Low Risk", "low">>
    ELSE IF score <= 7 THEN <<"Moderate Risk", "moderate">>
    ELSE IF score <= 12 THEN <<"High Risk", "high">>
    ELSE <<"Very High Risk", "high">>

-----------------------------------------------------------------------------
(* The form: pages and keyed widgets *)

Pages == {"Home", "Patient Assessment", "Treatment Options",
          "Diet Advice", "Exercise Plan", "Reports"}

\* the widgets whose values the script stores (app.py:343-359) or reads when
\* it builds the action list (app.py:427)
StoredWidgets == {"patient_name", "age", "sex", "weight", "height", "waist",
                  "systolic", "diastolic", "hr", "duration_htn", "diabetes",
                  "cad", "cva", "ckd", "smoking", "physical_inactivity"}

ScreeningWidgets == {"resistant_htn", "malignant_htn", "early_onset"}

WidgetKeys == StoredWidgets \cup ScreeningWidgets

\* value= of each widget (a checkbox starts unchecked, a selectbox on its
\* first option)
WidgetDefaults ==
    [patient_name |-> "", age |-> 45, sex |-> "Male", weight |-> 700,
     height |-> 170, waist |-> 850, systolic |-> 130, diastolic |-> 85,
     hr |-> 75, duration_htn |-> 0, diabetes |-> FALSE, cad |-> FALSE,
     cva |-> FALSE, ckd |-> FALSE, smoking |-> FALSE,
     physical_inactivity |-> FALSE, resistant_htn |-> FALSE,
     malignant_htn |-> FALSE, early_onset |-> FALSE]

\* the values the user enters, each inside the widget's min_value..max_value
WidgetValues ==
    [patient_name |-> {""}, age |-> {45, 70}, sex |-> {"Male"},
     weight |-> {700, 896}, height |-> {170}, waist |-> {850},
     systolic |-> {130, 145, 180}, diastolic |-> {85, 95, 120},
     hr |-> {75}, duration_htn |-> {0}, diabetes |-> BOOLEAN,
     cad |-> {FALSE}, cva |-> {FALSE}, ckd |-> {FALSE}, smoking |-> BOOLEAN,
     physical_inactivity |-> {FALSE}, resistant_htn |-> BOOLEAN,
     malignant_htn |-> BOOLEAN, early_onset |-> BOOLEAN]

\* datetime.now().strftime("%Y-%m-%d %H:%M") at the click; no rule reads it
Clock == {"2026-11-01 09:00"}

NoRet == <<>>
NoCall == [fn |-> "none"]

-----------------------------------------------------------------------------
(* Direct calls of the helper functions *)

\* the form's ranges, app.py:214 and app.py:217
MinSystolic == 70
MaxSystolic == 250
MinDiastolic == 40
MaxDiastolic == 150

\* get_risk_category is called with scores 0..MaxScoreArg
MaxScoreArg == 20

\* the records calculate_risk_score is called with: each key is absent or
\* holds one of these values
NumericKeys == {"age", "bmi", "systolic", "diastolic"}
FlagKeys == {"diabetes", "cad", "ckd", "smoking"}
ScoreKeys == NumericKeys \cup FlagKeys
ScoreValues ==
    [age |-> {45, 46, 56, 66}, bmi |-> {2499, 2500, 3000},
     systolic |-> {110, 125, 135, 150, 185}, diastolic |-> {75, 85, 95, 125}]

\* a choice per key: -1 or "absent" leaves the key out of the dict
DictOf(choice) ==
    [k \in {x \in NumericKeys : choice[x] # -1}
           \cup {x \in FlagKeys : choice[x] # "absent"} |->
        IF k \in NumericKeys THEN choice[k] ELSE choice[k] = "true"]

ScoreRecords ==
    {DictOf(c) : c \in [age : ScoreValues.age \cup {-1},
                        bmi : ScoreValues.bmi \cup {-1},
                        systolic : ScoreValues.systolic \cup {-1},
                        diastolic : ScoreValues.diastolic \cup {-1},
                        diabetes : {"absent", "false", "true"},
                        cad : {"absent", "false", "true"},
                        ckd : {"absent", "false", "true"},
                        smoking : {"absent", "false", "true"}]}

BmiWeights == {200, 700, 723, 896, 3000}
BmiHeights == {100, 170, 250}

-----------------------------------------------------------------------------
(* The Assessment Summary tab, app.py:337-431 *)

EMERGENCY == "EMERGENCY REFERRAL - Hypertensive crisis"
THERAPY == "Start or intensify antihypertensive therapy"
WEIGHT == "Weight reduction program"
SMOKING == "Smoking cessation counseling"
DIABETES == "Optimize diabetes management"
BASELINE == "Order basic investigations (CBC, LFT, KFT, Lipid Profile, HbA1c, TSH, ECG, Echo)"
SECONDARY == "Screen for secondary hypertension"

\* actions.append(a) if cond
AppendIf(cond, list, a) == IF cond THEN Append(list, a) ELSE list

\* the score taken from the widget values alone, before bmi is in the record
Commit_score_before_bmi(w, now) ==
    LET entered == [k \in StoredWidgets \cup {"bmi", "assessment_date"} |->
                        IF k = "bmi" THEN calculate_bmi(w.weight, w.height)
                        ELSE IF k = "assessment_date" THEN now
                        ELSE w[k]]
        risk_score == calculate_risk_score([k \in StoredWidgets |-> w[k]])
        risk_category == get_risk_category(risk_score)[1]
    IN  [k \in DOMAIN entered \cup {"risk_score", "risk_category"} |->
            IF k = "risk_score" THEN risk_score
            ELSE IF k = "risk_category" THEN risk_category
            ELSE entered[k]]

\* app.py:341-368: the dict literal, then the two derived keys
Commit(w, now) ==
    LET entered == [k \in StoredWidgets \cup {"bmi", "assessment_date"} |->
                        IF k = "bmi" THEN calculate_bmi(w.weight, w.height)
                        ELSE IF k = "assessment_date" THEN now
                        ELSE w[k]]
        risk_score == calculate_risk_score(entered)
        risk_category == get_risk_category(risk_score)[1]
    IN  [k \in DOMAIN entered \cup {"risk_score", "risk_category"} |->
            IF k = "risk_score" THEN risk_score
            ELSE IF k = "risk_category" THEN risk_category
            ELSE entered[k]]

\* the emergency rule with > for >=
BuildActions_strict_emergency(data, w) ==
    LET risk_score == Get(data, "risk_score", 0)
        risk_category == get_risk_category(risk_score)[1]
        a1 == AppendIf(Get(data, "systolic", 0) > 180 \/ Get(data, "diastolic", 0) > 120,
                       <<>>, EMERGENCY)
        a2 == AppendIf(risk_category \in {"High Risk", "Very High Risk"}, a1, THERAPY)
        a3 == AppendIf(Get(data, "bmi", 0) >= 2500, a2, WEIGHT)
        a4 == AppendIf(Truthy(data, "smoking"), a3, SMOKING)
        a5 == AppendIf(Truthy(data, "diabetes"), a4, DIABETES)
        a6 == Append(a5, BASELINE)
    IN  AppendIf(w.resistant_htn \/ w.early_onset \/ w.malignant_htn, a6, SECONDARY)

\* the screening rule placed before the unconditional append
BuildActions_screening_early(data, w) ==
    LET risk_score == Get(data, "risk_score", 0)
        risk_category == get_risk_category(risk_score)[1]
        a1 == AppendIf(Get(data, "systolic", 0) >= 180 \/ Get(data, "diastolic", 0) >= 120,
                       <<>>, EMERGENCY)
        a2 == AppendIf(risk_category \in {"High Risk", "Very High Risk"}, a1, THERAPY)
        a3 == AppendIf(Get(data, "bmi", 0) >= 2500, a2, WEIGHT)
        a4 == AppendIf(Truthy(data, "smoking"), a3, SMOKING)
        a5 == AppendIf(Truthy(data, "diabetes"), a4, DIABETES)
        a6 == AppendIf(w.resistant_htn \/ w.early_onset \/ w.malignant_htn, a5, SECONDARY)
    IN  Append(a6, BASELINE)

\* app.py:393-428: the list built from the stored record `data` and from the
\* three screening checkboxes of this script run, `w`
BuildActions(data, w) ==
    LET risk_score == Get(data, "risk_score", 0)
        risk_category == get_risk_category(risk_score)[1]
        a1 == AppendIf(Get(data, "systolic", 0) >= 180 \/ Get(data, "diastolic", 0) >= 120,
                       <<>>, EMERGENCY)
        a2 == AppendIf(risk_category \in {"High Risk", "Very High Risk"}, a1, THERAPY)
        a3 == AppendIf(Get(data, "bmi", 0) >= 2500, a2, WEIGHT)
        a4 == AppendIf(Truthy(data, "smoking"), a3, SMOKING)
        a5 == AppendIf(Truthy(data, "diabetes"), a4, DIABETES)
        a6 == Append(a5, BASELINE)
    IN  AppendIf(w.resistant_htn \/ w.early_onset \/ w.malignant_htn, a6, SECONDARY)

\* what the Patient Assessment page shows in its last tab
SummaryOutput(data) == IF NonEmpty(data) THEN "summary" ELSE "form"
SummaryActions(data, w) == IF NonEmpty(data) THEN BuildActions(data, w) ELSE <<>>

\* Every interaction runs the script from its first line with a fresh
\* namespace.  Of the names the Treatment Options tab reads (app.py:458-462)
\* a run binds risk_score, risk_category and risk_level only in the
\* Patient Assessment branch: at app.py:364-365 on a click, at
\* app.py:393-394 when the stored record is not empty.
DerivedNames == {"risk_category", "risk_score", "risk_level"}

NamesBound(p, data) ==
    IF p = "Patient Assessment" /\ NonEmpty(data) THEN DerivedNames ELSE {}

\* st.metric("Risk Category", risk_category), st.metric("Risk Score", ...),
\* if risk_level == "low"
TreatmentReads == {"risk_category", "risk_score", "risk_level"}

\* app.py:141, 175, 434: what a run of the script renders on page p
PageOutput(p, data) ==
    IF p = "Home" THEN "home"
    ELSE IF p = "Patient Assessment" THEN SummaryOutput(data)
    ELSE IF p = "Treatment Options"
        THEN IF ~NonEmpty(data) THEN "warning"
             ELSE IF TreatmentReads \subseteq NamesBound(p, data) THEN "treatment"
             ELSE "NameError"
    ELSE "blank"

-----------------------------------------------------------------------------
(* One script run per user interaction *)

AppIdle == call.fn = "none"

\* the user picks another page in the sidebar; widgets the run does not
\* render lose their state and come back with their defaults
Navigate ==
    /\ AppIdle
    /\ \E p \in Pages \ {page} :
        /\ page' = p
        /\ widgets' = WidgetDefaults
        /\ output' = PageOutput(p, patient_data)
        /\ actions' = IF p = "Patient Assessment"
                      THEN SummaryActions(patient_data, WidgetDefaults)
                      ELSE <<>>
    /\ UNCHANGED <<patient_data, last_inputs, call, ret>>

\* the user edits one widget; the script reruns with the button not clicked
SetWidget ==
    /\ AppIdle
    /\ page = "Patient Assessment"
    /\ \E k \in WidgetKeys : \E v \in WidgetValues[k] \ {widgets[k]} :
        /\ widgets' = [widgets EXCEPT ![k] = v]
        /\ output' = SummaryOutput(patient_data)
        /\ actions' = SummaryActions(patient_data, widgets')
    /\ UNCHANGED <<page, patient_data, last_inputs, call, ret>>

\* the user clicks "Generate Assessment Summary"
GenerateAssessmentSummary ==
    /\ AppIdle
    /\ page = "Patient Assessment"
    /\ \E now \in Clock :
        patient_data' = Commit(widgets, now)
    /\ output' = SummaryOutput(patient_data')
    /\ actions' = SummaryActions(patient_data', widgets)
    /\ last_inputs' = [k \in StoredWidgets |-> widgets[k]]
    /\ UNCHANGED <<page, widgets, call, ret>>

Init ==
    /\ page = "Home"
    /\ widgets = WidgetDefaults
    /\ patient_data = EmptyDict
    /\ output = "home"
    /\ actions = <<>>
    /\ last_inputs = EmptyDict
    /\ call = NoCall
    /\ ret = NoRet

Next == Navigate \/ SetWidget \/ GenerateAssessmentSummary

Spec == Init /\ [][Next]_vars

-----------------------------------------------------------------------------
(* The helper functions called on their own, one call per behaviour *)

Pending == call.fn # "none" /\ Len(ret) = 0
Returned(fn) == call.fn = fn /\ Len(ret) = 1

Call_classify_bp ==
    /\ Pending /\ call.fn = "classify_bp"
    /\ ret' = <<classify_bp(call.systolic, call.diastolic)>>
    /\ UNCHANGED <<page, widgets, patient_data, output, actions, last_inputs, call>>

Call_calculate_risk_score ==
    /\ Pending /\ call.fn = "calculate_risk_score"
    /\ ret' = <<calculate_risk_score(call.data)>>
    /\ UNCHANGED <<page, widgets, patient_data, output, actions, last_inputs, call>>

Call_get_risk_category ==
    /\ Pending /\ call.fn = "get_risk_category"
    /\ ret' = <<get_risk_category(call.score)>>
    /\ UNCHANGED <<page, widgets, patient_data, output, actions, last_inputs, call>>

Call_calculate_bmi ==
    /\ Pending /\ call.fn = "calculate_bmi"
    /\ ret' = <<calculate_bmi(call.weight, call.height)>>
    /\ UNCHANGED <<page, widgets, patient_data, output, actions, last_inputs, call>>

InitFn ==
    /\ page = "Home"
    /\ widgets = WidgetDefaults
    /\ patient_data = EmptyDict
    /\ output = "home"
    /\ actions = <<>>
    /\ last_inputs = EmptyDict
    /\ ret = NoRet
    /\ \/ \E s \in MinSystolic..MaxSystolic, d \in MinDiastolic..MaxDiastolic :
            call = [fn |-> "classify_bp", systolic |-> s, diastolic |-> d]
       \/ \E data \in ScoreRecords :
            call = [fn |-> "calculate_risk_score", data |-> data]
       \/ \E score \in 0..MaxScoreArg :
            call = [fn |-> "get_risk_category", score |-> score]
       \/ \E w \in BmiWeights, h \in BmiHeights :
            call = [fn |-> "calculate_bmi", weight |-> w, height |-> h]

NextFn ==
    \/ Call_classify_bp
    \/ Call_calculate_risk_score
    \/ Call_get_risk_category
    \/ Call_calculate_bmi

SpecFn == InitFn /\ [][NextFn]_vars

-----------------------------------------------------------------------------
(* Properties of the helper functions, checked under SpecFn *)

CRISIS == "Hypertensive Crisis - EMERGENCY"

\* dict with data[k] = v, every other key as in data
Put(data, k, v) == [x \in DOMAIN data \cup {k} |-> IF x = k THEN v ELSE data[x]]

\* C1: classify_bp never returns the Hypertensive Crisis label for systolic
\* in 70..250 and diastolic in 40..150; every input that passes clauses 1-3
\* unmatched, 185/125 among them, returns ("Stage 2 Hypertension", high).
C1_CrisisNeverReturned ==
    Returned("classify_bp") =>
        LET s == call.systolic
            d == call.diastolic
            clause1 == s < 120 /\ d < 80
            clause2 == s < 130 /\ d < 80
            clause3 == (130 <= s /\ s <= 139) \/ (80 <= d /\ d <= 89)
        IN  /\ ret[1][1] # CRISIS
            /\ ~(clause1 \/ clause2 \/ clause3)
                    => ret[1] = <<"Stage 2 Hypertension", "high">>
            /\ (s = 185 /\ d = 125) => ret[1] = <<"Stage 2 Hypertension", "high">>

C1_Witness ==
    /\ Returned("classify_bp")
    /\ call.systolic = 185 /\ call.diastolic = 125
    /\ ret[1] = <<"Stage 2 Hypertension", "high">>

\* C2: classify_bp is total over systolic 70..250 and diastolic 40..150: it
\* returns one of the named categories with its tier and never the fallback
\* ("Unknown", moderate).
C2_ClassifyTotal ==
    Returned("classify_bp") =>
        /\ ret[1] \in {<<"Normal", "low">>, <<"Elevated", "moderate">>,
                       <<"Stage 1 Hypertension", "moderate">>,
                       <<"Stage 2 Hypertension", "high">>,
                       <<CRISIS, "high">>}
        /\ ret[1][1] # "Unknown"

C2_Witness ==
    /\ Returned("classify_bp")
    /\ call.systolic = 140 /\ call.diastolic = 79
    /\ ret[1] = <<"Stage 2 Hypertension", "high">>

\* C3: calculate_risk_score does not decrease when age or BMI is raised, or
\* when one of diabetes, cad, ckd, smoking goes from false (or absent) to
\* true, every other field of the record held fixed.
C3_MonotoneInRiskFactors ==
    Returned("calculate_risk_score") =>
        LET data == call.data
        IN  /\ \A k \in {"age", "bmi"} : \A v \in ScoreValues[k] :
                v > Get(data, k, 0)
                    => calculate_risk_score(Put(data, k, v)) >= ret[1]
            /\ \A k \in FlagKeys :
                ~Truthy(data, k)
                    => calculate_risk_score(Put(data, k, TRUE)) >= ret[1]

C3_Witness ==
    /\ Returned("calculate_risk_score")
    /\ call.data = [age |-> 56, bmi |-> 2500, diabetes |-> FALSE, cad |-> FALSE,
                    ckd |-> FALSE, smoking |-> FALSE, systolic |-> 110,
                    diastolic |-> 75]
    /\ ret[1] = 3
    /\ calculate_risk_score(Put(call.data, "age", 66)) = 4
    /\ calculate_risk_score(Put(call.data, "diabetes", TRUE)) = 6

\* C4: calculate_risk_score does not decrease when systolic is raised within
\* 70..250 with diastolic and every other field fixed, nor when diastolic is
\* raised within 40..150 with systolic and every other field fixed.
C4_MonotoneInBloodPressure ==
    (Returned("calculate_risk_score")
        /\ {"systolic", "diastolic"} \subseteq DOMAIN call.data) =>
        LET data == call.data
        IN  /\ \A s \in MinSystolic..MaxSystolic :
                s > data.systolic
                    => calculate_risk_score(Put(data, "systolic", s)) >= ret[1]
            /\ \A d \in MinDiastolic..MaxDiastolic :
                d > data.diastolic
                    => calculate_risk_score(Put(data, "diastolic", d)) >= ret[1]

\* the record with every absent key of ScoreKeys set to its default
WithDefaults(data) ==
    [k \in ScoreKeys |->
        IF k \in DOMAIN data THEN data[k]
        ELSE IF k = "systolic" THEN 120
        ELSE IF k = "diastolic" THEN 80
        ELSE IF k \in FlagKeys THEN FALSE
        ELSE 0]

\* C5: on a record with any subset of its fields absent calculate_risk_score
\* returns a non-negative integer, the score of the record with the defaults
\* filled in, and the defaults are neutral: an absent field adds nothing, so
\* the record with every field absent scores 0.
C5_AbsentFieldsNeutral ==
    Returned("calculate_risk_score") =>
        LET data == call.data
        IN  /\ ret[1] \in Nat
            /\ ret[1] = calculate_risk_score(WithDefaults(data))
            /\ DOMAIN data = {} => ret[1] = 0

\* C6: get_risk_category maps 0..3 to ("Low Risk", low), 4..7 to
\* ("Moderate Risk", moderate), 8..12 to ("High Risk", high) and 13 and more
\* to ("Very High Risk", high); every score falls in exactly one band.
C6_RiskBands ==
    Returned("get_risk_category") =>
        LET score == call.score
        IN  /\ (0 <= score /\ score <= 3)  <=> ret[1] = <<"Low Risk", "low">>
            /\ (4 <= score /\ score <= 7)  <=> ret[1] = <<"Moderate Risk", "moderate">>
            /\ (8 <= score /\ score <= 12) <=> ret[1] = <<"High Risk", "high">>
            /\ score >= 13                 <=> ret[1] = <<"Very High Risk", "high">>

C6_Witness ==
    /\ Returned("get_risk_category")
    /\ call.score = 13
    /\ ret[1] = <<"Very High Risk", "high">>

-----------------------------------------------------------------------------
(* Properties of the Assessment Summary, checked under Spec *)

RuleOrder == <<EMERGENCY, THERAPY, WEIGHT, SMOKING, DIABETES, BASELINE, SECONDARY>>
RuleIndex(a) == CHOOSE i \in 1..Len(RuleOrder) : RuleOrder[i] = a
Count(list, a) == Cardinality({i \in 1..Len(list) : list[i] = a})

\* C7: in the list built from a committed record the emergency referral is
\* present, and first, when the record's systolic >= 180 or diastolic >= 120,
\* and absent when systolic < 180 and diastolic < 120.
C7_EmergencyFirst ==
    output = "summary" =>
        IF patient_data.systolic >= 180 \/ patient_data.diastolic >= 120
        THEN Len(actions) >= 1 /\ actions[1] = EMERGENCY
        ELSE EMERGENCY \notin Range(actions)

C7_Witness ==
    /\ output = "summary"
    /\ patient_data.systolic = 130 /\ patient_data.diastolic = 120
    /\ patient_data.risk_category = "High Risk"
    /\ patient_data.smoking /\ patient_data.diabetes
    /\ widgets.early_onset
    /\ Len(actions) = 7 /\ actions[1] = EMERGENCY

\* C8: the list holds the baseline investigation action exactly once, and
\* its actions follow the rule order emergency, therapy, weight, smoking,
\* diabetes, baseline investigations, secondary screening, none repeated.
C8_BaselineOnceInRuleOrder ==
    output = "summary" =>
        /\ Count(actions, BASELINE) = 1
        /\ Range(actions) \subseteq Range(RuleOrder)
        /\ \A i, j \in 1..Len(actions) :
            i < j => RuleIndex(actions[i]) < RuleIndex(actions[j])

C8_Witness ==
    /\ output = "summary"
    /\ actions = <<WEIGHT, DIABETES, BASELINE, SECONDARY>>

RecordKeys == StoredWidgets \cup {"bmi", "assessment_date", "risk_score", "risk_category"}

\* the stored record without its two derived keys
EnteredFields(data) == [k \in DOMAIN data \ {"risk_score", "risk_category"} |-> data[k]]

\* C9: before the first Generate click the stored record is empty; after any
\* sequence of clicks it holds exactly the inputs of the last click, and its
\* risk_score and risk_category are the ones derived from those fields
\* (age 70, bmi 31, diabetes, smoking, 145/95: 13, "Very High Risk").
C9_RecordIsLastAssessment ==
    IF DOMAIN last_inputs = {}
    THEN DOMAIN patient_data = {}
    ELSE /\ DOMAIN patient_data = RecordKeys
         /\ \A k \in StoredWidgets : patient_data[k] = last_inputs[k]
         /\ patient_data.bmi = calculate_bmi(last_inputs.weight, last_inputs.height)
         /\ patient_data.risk_score = calculate_risk_score(EnteredFields(patient_data))
         /\ patient_data.risk_category = get_risk_category(patient_data.risk_score)[1]
         /\ (/\ patient_data.age = 70 /\ patient_data.bmi = 3100
             /\ patient_data.diabetes /\ patient_data.smoking
             /\ ~patient_data.cad /\ ~patient_data.ckd
             /\ patient_data.systolic = 145 /\ patient_data.diastolic = 95)
                => (patient_data.risk_score = 13
                    /\ patient_data.risk_category = "Very High Risk")

\* a second click, with other inputs than the first
C9_Witness ==
    /\ NonEmpty(patient_data)
    /\ patient_data.age = 70 /\ patient_data.bmi = 3100
    /\ patient_data.diabetes /\ patient_data.smoking
    /\ patient_data.systolic = 145 /\ patient_data.diastolic = 95
    /\ patient_data.risk_score = 13
    /\ patient_data.risk_category = "Very High Risk"
    /\ widgets.age = 45 /\ widgets.systolic = 180

\* C10: two renderings of the Assessment Summary with the same stored record
\* show the same action list, whatever the form widgets hold.
C10_ActionsDependOnRecordOnly ==
    [][(output = "summary" /\ output' = "summary" /\ patient_data' = patient_data)
            => actions' = actions]_vars

\* C11: the Treatment Options page shows only the "Please complete Patient
\* Assessment first" warning while the stored record is empty, and once a
\* Generate click has populated the record it renders the risk category,
\* risk score and risk level without error: every name it reads is bound in
\* that run of the page.
C11_TreatmentPageRenders ==
    page = "Treatment Options" =>
        IF NonEmpty(patient_data)
        THEN output = "treatment" /\ TreatmentReads \subseteq NamesBound(page, patient_data)
        ELSE output = "warning"

====
